---- MODULE Spec2Model ----
(***************************************************************************)
(* Exam session engine of src/main.py: question selection                  *)
(* (select_mcqs_for_exam), exam creation (exam_setup), viewing and         *)
(* submission (take_exam, submit_exam) and scoring (exam_result), over the *)
(* tables mcqs, attempts, exams and exam_questions.                        *)
(*                                                                         *)
(* Every db_execute / db_fetchall call opens its own connection and runs   *)
(* one statement (lines 20-36), so one statement is the unit of atomicity: *)
(* a handler is a sequence of steps, one per statement, and the steps of   *)
(* concurrent requests interleave.  Local computation between two          *)
(* statements belongs to the step of the statement before it.              *)
(***************************************************************************)
EXTENDS Integers, Sequences, FiniteSets, TLC

\* ---------------------------------------------------------------- bounds
NUsers == 2
NSubjects == 2
NMcq == 2
NReq == 3
MaxExams == 1
MaxCount == 2
MaxLimit == 1
MaxTime == 1
MaxCatalogOps == 1
MaxHist == 3
SelMcq == 3
MaxInflight == 2
MaxRows == 4

\* ------------------------------------------------------- program constants
MaxQuestionCount == 100
NULL == -1

Users == 1..NUsers
SubjectIds == 1..NSubjects
McqIds == 1..NMcq
Reqs == 1..NReq
OptionIdx == {0, 1}
EqIds == 1..(MaxExams * MaxCount)

\* Values a form field can carry: request.form maps names to strings.
FormValues == {"1", "x"}
\* A form holds question_<id> for any subset of the exam question ids.
Forms == UNION {[K -> FormValues] : K \in SUBSET EqIds}
EmptyForm == [k \in {} |-> "0"]

VARIABLES
    mcqs,            \* table mcqs: id -> [subject_id, correct_index], existing rows only
    attempts,        \* table attempts, in insertion order
    exams,           \* table exams, index = id
    exam_questions,  \* table exam_questions, index = id
    now,             \* datetime.utcnow(), in minutes
    pc,              \* per request: the next statement it runs
    req,             \* per request: its inputs and local variables
    catalogOps       \* number of admin catalog changes made so far

vars == <<mcqs, attempts, exams, exam_questions, now, pc, req, catalogOps>>
store == <<mcqs, attempts, exams, exam_questions>>

\* ---------------------------------------------------------------- helpers
Range(s) == {s[i] : i \in DOMAIN s}

\* All orders in which a query without (or with a random) ORDER BY may return S.
Perms(S) ==
    {p \in [1..Cardinality(S) -> S] : \A i, j \in 1..Cardinality(S) : i # j => p[i] # p[j]}

Prefix(s, n) == SubSeq(s, 1, IF Len(s) < n THEN Len(s) ELSE n)

\* int(selected), line 676: defined on decimal literals only.
IsIntLiteral(s) == s \in {"0", "1", "2"}
IntOf(s) == CASE s = "0" -> 0 [] s = "1" -> 1 [] s = "2" -> 2

Idle == [kind |-> "none"]

\* Requests are numbered in the order in which they arrive.
InFlight == {q \in Reqs : pc[q] \notin {"idle", "done"}}
MayStart(r) ==
    /\ pc[r] = "idle"
    /\ \A q \in Reqs : q < r => pc[q] # "idle"
    /\ Cardinality(InFlight) < MaxInflight

\* ---------------------------------------------------- select_mcqs_for_exam
\* mcqs.id NOT IN (SELECT mcq_id FROM attempts WHERE user_id = ?)
AttemptedBy(u) == {attempts[i].mcq_id : i \in {j \in DOMAIN attempts : attempts[j].user_id = u}}

InSubjects(S) == {m \in DOMAIN mcqs : mcqs[m].subject_id \in S}

UnattemptedRows(u, S) == InSubjects(S) \ AttemptedBy(u)

\* COUNT(*) of the user's incorrect attempts joined to the live mcq row.
WrongCount(u, m) ==
    Cardinality({j \in DOMAIN attempts :
        attempts[j].user_id = u /\ attempts[j].mcq_id = m /\ attempts[j].is_correct = 0})

IncorrectRows(u, S) == {m \in InSubjects(S) : WrongCount(u, m) > 0}

IncorrectOrders_unordered(u, S) == Perms(IncorrectRows(u, S))

\* ORDER BY wrong_count DESC: any order with non-increasing counts.
IncorrectOrders(u, S) ==
    {p \in Perms(IncorrectRows(u, S)) :
        \A i, j \in DOMAIN p : i < j => WrongCount(u, p[i]) >= WrongCount(u, p[j])}

\* The seen-set loop of lines 581-586 (and 596-599): append what is not yet in acc.
RECURSIVE AppendUnseen(_, _)
AppendUnseen(acc, s) ==
    IF s = <<>> THEN acc
    ELSE AppendUnseen(IF Head(s) \in Range(acc) THEN acc ELSE Append(acc, Head(s)), Tail(s))

Backfill_none(unique, remaining, count) == unique

\* The backfill loop of lines 596-601: append unseen rows, stop once count is reached.
RECURSIVE Backfill(_, _, _)
Backfill(unique, remaining, count) ==
    IF remaining = <<>> THEN unique
    ELSE LET u2 == IF Head(remaining) \in Range(unique) THEN unique
                   ELSE Append(unique, Head(remaining))
         IN IF Len(u2) >= count THEN u2 ELSE Backfill(u2, Tail(remaining), count)

Truncate_none(unique, count) == unique

\* return unique[:count]
Truncate(unique, count) == Prefix(unique, count)

\* What is left of an exam_setup request once it has returned: whose it was, how it
\* ended, and the exam and the selection it made (its other locals are gone).
SetupDone(rq, outcome) ==
    [kind |-> "setup", user |-> rq.user, outcome |-> outcome,
     exam_id |-> rq.exam_id, selected |-> rq.selected]

\* After select_mcqs_for_exam returns (lines 528-530): nothing to create from, or go on.
AfterSelect(r, selected) ==
    IF selected = <<>>
    THEN /\ pc' = [pc EXCEPT ![r] = "done"]
         /\ req' = [req EXCEPT ![r] = SetupDone(req[r], "no_mcqs")]
    ELSE /\ pc' = [pc EXCEPT ![r] = "insert_exam"]
         /\ req' = [req EXCEPT ![r].unique = <<>>, ![r].selected = selected]

\* ---------------------------------------------------------------- exam_setup
\* POST /exam/setup up to the call of the selector: validation of the form.
exam_setup_start(r) ==
    /\ MayStart(r)
    /\ Cardinality({q \in Reqs : req[q].kind = "setup"}) < MaxExams
    /\ \E u \in Users, S \in SUBSET SubjectIds, mode \in {"random", "progress"},
          count \in (0..MaxCount) \cup {MaxQuestionCount + 1}, limit \in 0..MaxLimit :
        LET valid == S # {} /\ count > 0 /\ count <= MaxQuestionCount /\ limit > 0
            base == [kind |-> "setup", user |-> u, subject_ids |-> S, mode |-> mode,
                     count |-> count, time_limit |-> limit, unique |-> <<>>,
                     selected |-> <<>>, exam_id |-> NULL, i |-> 1, outcome |-> "none"]
        IN IF valid
           THEN /\ req' = [req EXCEPT ![r] = base]
                /\ pc' = [pc EXCEPT ![r] =
                            IF mode = "progress" THEN "select_unattempted" ELSE "select_random"]
           ELSE /\ req' = [req EXCEPT ![r] = SetupDone(base, "validation_error")]
                /\ pc' = [pc EXCEPT ![r] = "done"]
    /\ UNCHANGED <<store, now, catalogOps>>

\* Lines 558-566: the unattempted query.
select_unattempted(r) ==
    /\ pc[r] = "select_unattempted"
    /\ \E p \in Perms(UnattemptedRows(req[r].user, req[r].subject_ids)) :
        req' = [req EXCEPT ![r].unique = p]
    /\ pc' = [pc EXCEPT ![r] = "select_incorrect"]
    /\ UNCHANGED <<store, now, catalogOps>>

\* Lines 567-587: the incorrect query, the combined list and its deduplication.
select_incorrect(r) ==
    /\ pc[r] = "select_incorrect"
    /\ \E p \in IncorrectOrders(req[r].user, req[r].subject_ids) :
        LET unique == AppendUnseen(<<>>, req[r].unique \o p)
        IN IF Len(unique) < req[r].count
           THEN /\ req' = [req EXCEPT ![r].unique = unique]
                /\ pc' = [pc EXCEPT ![r] = "select_remaining"]
           ELSE AfterSelect(r, Truncate(unique, req[r].count))
    /\ UNCHANGED <<store, now, catalogOps>>

\* Lines 588-602: the backfill query and the return.
select_remaining(r) ==
    /\ pc[r] = "select_remaining"
    /\ \E p \in Perms(InSubjects(req[r].subject_ids)) :
        AfterSelect(r, Truncate(Backfill(req[r].unique, p, req[r].count), req[r].count))
    /\ UNCHANGED <<store, now, catalogOps>>

\* Lines 603-612: ORDER BY RANDOM() LIMIT count.
select_random(r) ==
    /\ pc[r] = "select_random"
    /\ \E p \in Perms(InSubjects(req[r].subject_ids)) :
        AfterSelect(r, Prefix(p, req[r].count))
    /\ UNCHANGED <<store, now, catalogOps>>

\* Lines 531-545: INSERT INTO exams.  The columns mode, subject_ids_json and
\* question_count are written here and only ever displayed; they are left out.
exam_setup_insert_exam(r) ==
    /\ pc[r] = "insert_exam"
    /\ exams' = Append(exams, [user_id |-> req[r].user,
                               time_limit_minutes |-> req[r].time_limit,
                               start_time |-> now, submitted_at |-> NULL])
    /\ req' = [req EXCEPT ![r].exam_id = Len(exams) + 1]
    /\ pc' = [pc EXCEPT ![r] = "insert_eq"]
    /\ UNCHANGED <<mcqs, attempts, exam_questions, now, catalogOps>>

\* Lines 546-551: one INSERT INTO exam_questions per selected id, then the redirect.
exam_setup_insert_eq(r) ==
    /\ pc[r] = "insert_eq"
    /\ exam_questions' = Append(exam_questions,
            [exam_id |-> req[r].exam_id, mcq_id |-> req[r].selected[req[r].i],
             selected_index |-> NULL, is_correct |-> NULL])
    /\ IF req[r].i = Len(req[r].selected)
       THEN /\ pc' = [pc EXCEPT ![r] = "done"]
            /\ req' = [req EXCEPT ![r] = SetupDone(req[r], "redirect_take")]
       ELSE /\ pc' = pc
            /\ req' = [req EXCEPT ![r].i = req[r].i + 1]
    /\ UNCHANGED <<mcqs, attempts, exams, now, catalogOps>>

\* ------------------------------------------------------------ admin catalog
\* Lines 471-478: UPDATE mcqs SET subject_id, ..., correct_index WHERE id.
edit_mcq(m, s, c) ==
    /\ catalogOps < MaxCatalogOps
    /\ m \in DOMAIN mcqs
    /\ mcqs[m] # [subject_id |-> s, correct_index |-> c]
    /\ mcqs' = [mcqs EXCEPT ![m] = [subject_id |-> s, correct_index |-> c]]
    /\ catalogOps' = catalogOps + 1
    /\ UNCHANGED <<attempts, exams, exam_questions, now, pc, req>>

\* Line 488: DELETE FROM mcqs WHERE id.
delete_mcq(m) ==
    /\ catalogOps < MaxCatalogOps
    /\ m \in DOMAIN mcqs
    /\ mcqs' = [k \in DOMAIN mcqs \ {m} |-> mcqs[k]]
    /\ catalogOps' = catalogOps + 1
    /\ UNCHANGED <<attempts, exams, exam_questions, now, pc, req>>

\* Line 314: DELETE FROM mcqs WHERE subject_id (line 315 removes the subject row,
\* which no query of the exam engine reads).
delete_subject(s) ==
    /\ catalogOps < MaxCatalogOps
    /\ \E m \in DOMAIN mcqs : mcqs[m].subject_id = s
    /\ mcqs' = [k \in {m \in DOMAIN mcqs : mcqs[m].subject_id # s} |-> mcqs[k]]
    /\ catalogOps' = catalogOps + 1
    /\ UNCHANGED <<attempts, exams, exam_questions, now, pc, req>>

\* Wall-clock time passes.
Tick ==
    /\ now < MaxTime
    /\ now' = now + 1
    /\ UNCHANGED <<store, pc, req, catalogOps>>

\* ------------------------------------------------------------------ take_exam
\* What is left of a take_exam request once it has returned: whose it was, how it
\* ended, what it showed, and - as history - which fields its form carried (answered),
\* which rows the exam had when submit_exam read them (exam_rows) and which of them
\* the join with mcqs returned (joined).  Its other locals are gone.
TakeDone(rq, outcome) ==
    [kind |-> "take", user |-> rq.user, exam_id |-> rq.exam_id, method |-> rq.method,
     forced |-> rq.forced, outcome |-> outcome, resp |-> rq.resp,
     answered |-> DOMAIN rq.form, exam_rows |-> rq.exam_rows,
     joined |-> {rq.questions[k].exam_question_id : k \in DOMAIN rq.questions}]
ExamFor_any_user(e, u) == e \in DOMAIN exams

\* SELECT ... FROM exams WHERE id = ? AND user_id = ?
ExamFor(e, u) == e \in DOMAIN exams /\ exams[e].user_id = u

AlreadySubmitted_never(e) == FALSE

\* if exam["submitted_at"], line 630
AlreadySubmitted(e) == exams[e].submitted_at # NULL

\* Lines 617-631: the exam row is fetched for the logged-in user; an exam that is not
\* theirs is "not found", a submitted one redirects to the result.
take_exam_fetch(r) ==
    /\ MayStart(r)
    /\ \E u \in Users, e \in 1..MaxExams, method \in {"GET", "POST"} :
        /\ LET base == [kind |-> "take", user |-> u, exam_id |-> e, method |-> method,
                        form |-> EmptyForm, form_data |-> EmptyForm,
                        start_time |-> NULL, time_limit_minutes |-> NULL,
                        questions |-> <<>>, exam_rows |-> {}, i |-> 1, forced |-> FALSE,
                        resp |-> {}, outcome |-> "none"]
           IN IF ~ExamFor(e, u)
              THEN /\ req' = [req EXCEPT ![r] = TakeDone(base, "not_found")]
                   /\ pc' = [pc EXCEPT ![r] = "done"]
              ELSE IF AlreadySubmitted(e)
              THEN /\ req' = [req EXCEPT ![r] = TakeDone(base, "redirect_result")]
                   /\ pc' = [pc EXCEPT ![r] = "done"]
              ELSE /\ req' = [req EXCEPT ![r] =
                                [base EXCEPT !.start_time = exams[e].start_time,
                                             !.time_limit_minutes = exams[e].time_limit_minutes]]
                   /\ pc' = [pc EXCEPT ![r] = "check_deadline"]
    /\ UNCHANGED <<store, now, catalogOps>>

\* deadline = start_time + timedelta(minutes=time_limit_minutes)
Deadline(rq) == rq.start_time + rq.time_limit_minutes

\* Lines 632-640: past the deadline any request submits with its own form; before it
\* only a POST does; a GET goes on to show the questions.
take_exam_check(r) ==
    /\ pc[r] = "check_deadline"
    /\ IF now >= Deadline(req[r])
       THEN /\ req' = [req EXCEPT ![r].forced = TRUE]
            /\ pc' = [pc EXCEPT ![r] = "submit_read"]
       ELSE IF req[r].method = "POST"
       THEN /\ req' = req
            /\ pc' = [pc EXCEPT ![r] = "submit_read"]
       ELSE /\ req' = req
            /\ pc' = [pc EXCEPT ![r] = "view_read"]
    /\ UNCHANGED <<store, now, catalogOps>>

\* FROM exam_questions WHERE exam_id = ?
EqRows(e) == {q \in DOMAIN exam_questions : exam_questions[q].exam_id = e}

\* exam_questions JOIN mcqs ON mcqs.id = exam_questions.mcq_id WHERE exam_id = ?
JoinedRows(e) == {q \in EqRows(e) : exam_questions[q].mcq_id \in DOMAIN mcqs}

\* Lines 641-659: the page with the exam's questions.
take_exam_view(r) ==
    /\ pc[r] = "view_read"
    /\ req' = [req EXCEPT ![r] =
                TakeDone([req[r] EXCEPT !.resp = JoinedRows(req[r].exam_id)], "view")]
    /\ pc' = [pc EXCEPT ![r] = "done"]
    /\ UNCHANGED <<store, now, catalogOps>>

\* ---------------------------------------------------------------- submit_exam
\* Lines 672-675: the first question at or after i whose form field is present.
RECURSIVE NextAnswered(_, _, _)
NextAnswered(questions, form, i) ==
    IF i > Len(questions) THEN i
    ELSE IF questions[i].exam_question_id \in DOMAIN form THEN i
    ELSE NextAnswered(questions, form, i + 1)

\* The loop of lines 672-677 from question i up to its next statement: the UPDATE of
\* the next answered question, the final UPDATE of the exam, or the ValueError that
\* int() raises on a field that is no number (the request ends there).
Advance(r, rq, i) ==
    LET k == NextAnswered(rq.questions, rq.form_data, i)
    IN IF k > Len(rq.questions)
       THEN /\ req' = [req EXCEPT ![r] = [rq EXCEPT !.i = k]]
            /\ pc' = [pc EXCEPT ![r] = "mark_submitted"]
       ELSE IF ~IsIntLiteral(rq.form_data[rq.questions[k].exam_question_id])
       THEN /\ req' = [req EXCEPT ![r] = TakeDone(rq, "error")]
            /\ pc' = [pc EXCEPT ![r] = "done"]
       ELSE /\ req' = [req EXCEPT ![r] = [rq EXCEPT !.i = k]]
            /\ pc' = [pc EXCEPT ![r] = "grade_update"]

FormData_forced_empty(rq, form) == IF rq.forced THEN EmptyForm ELSE form

\* The form_data argument of submit_exam: both calls, the forced one of line 635 and
\* the POST of line 639, pass request.form, the fields of the request itself.
FormData(rq, form) == form

\* Lines 663-671: the exam's questions joined to the live mcq rows, in any order.
\* request.form is first read right after (line 673), so the fields the client
\* sent are drawn here: none with a GET, any with a POST.
submit_exam_read(r) ==
    /\ pc[r] = "submit_read"
    /\ \E p \in Perms(JoinedRows(req[r].exam_id)), form \in Forms :
        /\ req[r].method = "GET" => form = EmptyForm
        /\ LET questions == [k \in DOMAIN p |->
                [exam_question_id |-> p[k], mcq_id |-> exam_questions[p[k]].mcq_id,
                 correct_index |-> mcqs[exam_questions[p[k]].mcq_id].correct_index]]
           IN Advance(r, [req[r] EXCEPT !.questions = questions, !.form = form,
                                        !.form_data = FormData(req[r], form),
                                        !.exam_rows = EqRows(req[r].exam_id)], 1)
    /\ UNCHANGED <<store, now, catalogOps>>

\* selected_index = int(form_data.get(...)), lines 673-676
Selected(rq) == IntOf(rq.form_data[rq.questions[rq.i].exam_question_id])

\* is_correct = 1 if selected_index == question["correct_index"] else 0
IsCorrect(selected_index, correct_index) == IF selected_index = correct_index THEN 1 ELSE 0

\* Lines 678-685: UPDATE exam_questions SET selected_index, is_correct WHERE id.
submit_exam_update(r) ==
    /\ pc[r] = "grade_update"
    /\ LET q == req[r].questions[req[r].i]
       IN exam_questions' = [exam_questions EXCEPT
            ![q.exam_question_id].selected_index = Selected(req[r]),
            ![q.exam_question_id].is_correct = IsCorrect(Selected(req[r]), q.correct_index)]
    /\ pc' = [pc EXCEPT ![r] = "grade_insert"]
    /\ UNCHANGED <<mcqs, attempts, exams, now, req, catalogOps>>

submit_exam_insert_none(r) ==
    /\ pc[r] = "grade_insert"
    /\ Advance(r, req[r], req[r].i + 1)
    /\ UNCHANGED <<mcqs, attempts, exams, exam_questions, now, catalogOps>>

\* Lines 686-698: INSERT INTO attempts; then the loop goes on.  eq and by are history
\* fields (the exam question and the request the row was written for), no columns.
submit_exam_insert(r) ==
    /\ pc[r] = "grade_insert"
    /\ LET q == req[r].questions[req[r].i]
       IN attempts' = Append(attempts,
            [user_id |-> req[r].user, mcq_id |-> q.mcq_id,
             selected_index |-> Selected(req[r]),
             is_correct |-> IsCorrect(Selected(req[r]), q.correct_index),
             eq |-> q.exam_question_id, by |-> r])
    /\ Advance(r, req[r], req[r].i + 1)
    /\ UNCHANGED <<mcqs, exams, exam_questions, now, catalogOps>>

\* Lines 699-702: UPDATE exams SET submitted_at = now WHERE id; back in take_exam the
\* request redirects to the result.
submit_exam_mark(r) ==
    /\ pc[r] = "mark_submitted"
    /\ exams' = [exams EXCEPT ![req[r].exam_id].submitted_at = now]
    /\ req' = [req EXCEPT ![r] = TakeDone(req[r], "submitted")]
    /\ pc' = [pc EXCEPT ![r] = "done"]
    /\ UNCHANGED <<mcqs, attempts, exam_questions, now, catalogOps>>

\* ---------------------------------------------------------------- exam_result
\* Lines 708-719: the exam row is fetched for the logged-in user.
exam_result_fetch(r) ==
    /\ MayStart(r)
    /\ \E u \in Users, e \in 1..MaxExams :
        LET base == [kind |-> "result", user |-> u, exam_id |-> e,
                     submitted_at |-> NULL, resp |-> {}, outcome |-> "none"]
        IN IF ~ExamFor(e, u)
           THEN /\ req' = [req EXCEPT ![r] = [base EXCEPT !.outcome = "not_found"]]
                /\ pc' = [pc EXCEPT ![r] = "done"]
           ELSE /\ req' = [req EXCEPT ![r] =
                            [base EXCEPT !.submitted_at = exams[e].submitted_at]]
                /\ pc' = [pc EXCEPT ![r] = "result_summary"]
    /\ UNCHANGED <<store, now, catalogOps>>

\* round(correct / total * 100, 2), in hundredths of a percent, ties to even.
Score(correct, total) ==
    LET n == correct * 10000
        q == n \div total
        rem == n % total
    IN IF 2 * rem > total \/ (2 * rem = total /\ q % 2 = 1) THEN q + 1 ELSE q

\* SUM(CASE WHEN is_correct = v THEN 1 ELSE 0 END) over rows: SQL's SUM is NULL, not
\* 0, when there is no row to sum over.
SumCase(rows, v) ==
    IF rows = {} THEN NULL
    ELSE Cardinality({q \in rows : exam_questions[q].is_correct = v})

\* Lines 720-733: COUNT and the two SUMs over the exam's rows, and the score.
Summary(e) ==
    LET total == Cardinality(EqRows(e))
        correct == SumCase(EqRows(e), 1)
        incorrect == SumCase(EqRows(e), 0)
    IN [total |-> total, correct |-> correct, incorrect |-> incorrect,
        score |-> IF total # 0 THEN Score(correct, total) ELSE 0]

exam_result_summary(r) ==
    /\ pc[r] = "result_summary"
    /\ req' = [req EXCEPT ![r].resp = {Summary(req[r].exam_id)}, ![r].outcome = "result"]
    /\ pc' = [pc EXCEPT ![r] = "done"]
    /\ UNCHANGED <<store, now, catalogOps>>

\* ------------------------------------------------------------ specifications
\* The catalog the exams are drawn from, no exam yet, nobody has answered anything.
InitCatalog ==
    [m \in McqIds |-> [subject_id |-> IF m < NMcq THEN 1 ELSE NSubjects,
                       correct_index |-> m % 2]]

Init ==
    /\ mcqs = InitCatalog
    /\ attempts = <<>>
    /\ exams = <<>>
    /\ exam_questions = <<>>
    /\ now = 0
    /\ pc = [r \in Reqs |-> "idle"]
    /\ req = [r \in Reqs |-> Idle]
    /\ catalogOps = 0

Setup(r) ==
    \/ exam_setup_start(r)
    \/ select_unattempted(r)
    \/ select_incorrect(r)
    \/ select_remaining(r)
    \/ select_random(r)
    \/ exam_setup_insert_exam(r)
    \/ exam_setup_insert_eq(r)

Take(r) ==
    \/ take_exam_fetch(r)
    \/ take_exam_check(r)
    \/ take_exam_view(r)
    \/ submit_exam_read(r)
    \/ submit_exam_update(r)
    \/ submit_exam_insert(r)
    \/ submit_exam_mark(r)

Result(r) ==
    \/ exam_result_fetch(r)
    \/ exam_result_summary(r)

Admin ==
    \/ \E m \in DOMAIN mcqs, s \in SubjectIds, c \in OptionIdx : edit_mcq(m, s, c)
    \/ \E m \in DOMAIN mcqs : delete_mcq(m)
    \/ \E s \in SubjectIds : delete_subject(s)

Next ==
    \/ \E r \in Reqs : Setup(r)
    \/ \E r \in Reqs : Take(r)
    \/ \E r \in Reqs : Result(r)
    \/ Admin
    \/ Tick

Spec == Init /\ [][Next]_vars

\* The selector on its own: any catalog of up to SelMcq questions (some deleted), any
\* attempt history of up to MaxHist rows, and exam_setup requests on top of them.  The
\* queries read attempts as a set of rows, so one order per set of rows is enough.
HistRows ==
    [user_id : Users, mcq_id : 1..SelMcq, selected_index : {1}, is_correct : {0, 1},
     eq : {0}, by : {0}]

Rank(row) == (row.user_id * (SelMcq + 1) + row.mcq_id) * 2 + row.is_correct

Histories ==
    UNION {{h \in [1..n -> HistRows] : \A i \in 1..(n - 1) : Rank(h[i]) <= Rank(h[i + 1])}
           : n \in 0..MaxHist}

Catalogs ==
    UNION {[D -> [subject_id : SubjectIds, correct_index : {0}]] : D \in SUBSET (1..SelMcq)}

SelInit ==
    /\ mcqs \in Catalogs
    /\ attempts \in Histories
    /\ exams = <<>>
    /\ exam_questions = <<>>
    /\ now = 0
    /\ pc = [r \in Reqs |-> "idle"]
    /\ req = [r \in Reqs |-> Idle]
    /\ catalogOps = 0

SelNext == \E r \in Reqs : Setup(r)

SelSpec == SelInit /\ [][SelNext]_vars

\* The result page on its own: one exam of any owner, submitted or not, with any
\* 0..MaxRows rows, each unanswered, answered wrongly or answered correctly, and
\* exam_result requests on top of them.
ScoreRows ==
    {[exam_id |-> 1, mcq_id |-> 1, selected_index |-> IF c = NULL THEN NULL ELSE 1 - c,
      is_correct |-> c] : c \in {NULL, 0, 1}}

ScoreInit ==
    /\ mcqs = InitCatalog
    /\ attempts = <<>>
    /\ \E u \in Users, t \in {NULL, 0} :
        exams = <<[user_id |-> u, time_limit_minutes |-> 1, start_time |-> 0,
                   submitted_at |-> t]>>
    /\ exam_questions \in UNION {[1..n -> ScoreRows] : n \in 0..MaxRows}
    /\ now = 0
    /\ pc = [r \in Reqs |-> "idle"]
    /\ req = [r \in Reqs |-> Idle]
    /\ catalogOps = 0

ScoreNext == \E r \in Reqs : Result(r)

ScoreSpec == ScoreInit /\ [][ScoreNext]_vars

\* -------------------------------------------------------------------- claims
IsTake(r) == req[r].kind = "take"
AttemptsFor(q) == {j \in DOMAIN attempts : attempts[j].eq = q}
AttemptsBy(r, q) == {j \in DOMAIN attempts : attempts[j].eq = q /\ attempts[j].by = r}
Submitters(e) ==
    {r \in Reqs : IsTake(r) /\ req[r].exam_id = e /\ req[r].outcome = "submitted"}

\* C1: a take_exam request of the owner that arrives when the exam is already
\* submitted is a no-op: it ends with the redirect to the result in its first step,
\* never reads its form, and leaves every exam, exam question and attempt row as the
\* first submission left them.
C1_SubmitAfterSubmitIsNoOp ==
    /\ [][\A r \in Reqs :
            (/\ pc[r] = "idle" /\ pc'[r] # "idle" /\ req'[r].kind = "take"
             /\ ExamFor(req'[r].exam_id, req'[r].user)
             /\ exams[req'[r].exam_id].submitted_at # NULL)
            => (/\ pc'[r] = "done" /\ req'[r].outcome = "redirect_result"
                /\ exams' = exams /\ exam_questions' = exam_questions
                /\ attempts' = attempts)]_vars
    /\ [](\A r \in Reqs :
            (IsTake(r) /\ req[r].outcome = "redirect_result")
            => (/\ pc[r] = "done" /\ req[r].answered = {}
                /\ \A j \in DOMAIN attempts : attempts[j].by # r))

\* A second POST of the owner has been answered with the redirect after a first
\* request submitted the exam.
C1_Witness ==
    \E r, q \in Reqs :
        /\ q < r /\ IsTake(q) /\ IsTake(r) /\ req[q].exam_id = req[r].exam_id
        /\ req[q].user = req[r].user
        /\ req[q].outcome = "submitted" /\ req[q].answered # {}
        /\ req[r].method = "POST" /\ req[r].outcome = "redirect_result"

\* C2: for every exam at most one request performs the submission, and no exam
\* question has more than one attempt row written by submitting requests.
C2_OneSubmitterOneAttempt ==
    \A e \in DOMAIN exams :
        /\ Cardinality(Submitters(e)) <= 1
        /\ \A q \in EqRows(e) :
            Cardinality({j \in AttemptsFor(q) : attempts[j].by \in Submitters(e)}) <= 1

\* C3: when a take_exam request of the owner that found the deadline passed has
\* finished, the exam is submitted, and an exam question nobody sent an answer for is
\* ungraded and has no attempt row.
C3_DeadlineEnforced ==
    \A r \in Reqs :
        (IsTake(r) /\ pc[r] = "done" /\ req[r].forced)
        => /\ exams[req[r].exam_id].submitted_at # NULL
           /\ \A q \in EqRows(req[r].exam_id) :
                (\A p \in Reqs : IsTake(p) /\ pc[p] = "done" => q \notin req[p].answered)
                => /\ exam_questions[q].selected_index = NULL
                   /\ exam_questions[q].is_correct = NULL
                   /\ AttemptsFor(q) = {}

\* C4: a result request of the owner that fetched an exam with submitted_at null ends
\* with "not yet submitted" and carries no total, correct, incorrect or score.
C4_ResultNeedsSubmission ==
    \A r \in Reqs :
        (req[r].kind = "result" /\ pc[r] = "done" /\ req[r].outcome # "not_found"
            /\ req[r].submitted_at = NULL)
        => (req[r].outcome = "not_yet_submitted" /\ req[r].resp = {})

\* C5: a take_exam or exam_result request on an exam owned by another learner ends
\* "not found" in its first step, shows nothing, reads no question, and changes no
\* exam, exam question or attempt row - also when the exam is past its deadline.
C5_OwnershipIsolation ==
    /\ [][\A r \in Reqs :
            (/\ pc[r] = "idle" /\ pc'[r] # "idle" /\ req'[r].kind \in {"take", "result"}
             /\ req'[r].exam_id \in DOMAIN exams
             /\ exams[req'[r].exam_id].user_id # req'[r].user)
            => (/\ pc'[r] = "done" /\ req'[r].outcome = "not_found" /\ req'[r].resp = {}
                /\ exams' = exams /\ exam_questions' = exam_questions
                /\ attempts' = attempts)]_vars
    /\ [](\A r \in Reqs :
            (req[r].kind \in {"take", "result"} /\ req[r].outcome = "not_found")
            => (/\ pc[r] = "done" /\ req[r].resp = {}
                /\ \A j \in DOMAIN attempts : attempts[j].by # r))

\* A learner has asked for another learner's exam, open and past its deadline, and
\* got "not found"; the exam is still open.
C5_Witness ==
    \E r \in Reqs :
        /\ IsTake(r) /\ req[r].outcome = "not_found"
        /\ req[r].exam_id \in DOMAIN exams
        /\ LET ex == exams[req[r].exam_id]
           IN /\ ex.user_id # req[r].user
              /\ ex.submitted_at = NULL
              /\ now >= ex.start_time + ex.time_limit_minutes
              /\ EqRows(req[r].exam_id) # {}

\* C6: once submitted_at of an exam is set, no step changes it or any of the exam's
\* exam question rows.
C6_SubmittedIsTerminal ==
    [][\A e \in DOMAIN exams :
            exams[e].submitted_at # NULL
            => /\ exams'[e].submitted_at = exams[e].submitted_at
               /\ \A q \in EqRows(e) : exam_questions'[q] = exam_questions[q]]_vars

\* C7 as stated: after a completed submission every exam question the exam had, and
\* for which the form carried an answer, is graded and has one attempt row of that
\* submission - whether or not its question was edited or deleted in between.
C7_GradedDespiteCatalogChange ==
    \A r \in Reqs :
        (IsTake(r) /\ req[r].outcome = "submitted")
        => \A q \in req[r].exam_rows \cap req[r].answered :
            /\ exam_questions[q].selected_index # NULL
            /\ exam_questions[q].is_correct # NULL
            /\ Cardinality(AttemptsBy(r, q)) = 1

\* C7 amended: after a completed submission every answered exam question whose
\* question still existed when submit_exam read the exam (the join returned it) is
\* graded and has exactly one attempt row of that submission; for a row whose
\* question had been deleted the submission has written no attempt row.
C7_GradedWhenQuestionExists ==
    \A r \in Reqs :
        (IsTake(r) /\ req[r].outcome = "submitted")
        => /\ \A q \in req[r].joined \cap req[r].answered :
                /\ exam_questions[q].selected_index # NULL
                /\ exam_questions[q].is_correct # NULL
                /\ Cardinality(AttemptsBy(r, q)) = 1
           /\ \A q \in req[r].exam_rows \ req[r].joined : AttemptsBy(r, q) = {}

\* A submission has completed that graded one answered question and skipped another
\* answered one whose question had been deleted.
C7_Witness ==
    \E r \in Reqs :
        /\ IsTake(r) /\ req[r].outcome = "submitted"
        /\ req[r].joined \cap req[r].answered # {}
        /\ (req[r].exam_rows \ req[r].joined) \cap req[r].answered # {}

\* C8: a submission that failed has left no attempt row behind, and the rows of an
\* exam that was then submitted hold one attempt row per exam question at most.
C8_SubmitAllOrNothing ==
    /\ \A r \in Reqs :
        (IsTake(r) /\ req[r].outcome = "error")
        => \A j \in DOMAIN attempts : attempts[j].by # r
    /\ \A e \in DOMAIN exams :
        (Cardinality(Submitters(e)) = 1 /\ \A r \in Reqs : IsTake(r) => pc[r] = "done")
        => \A q \in EqRows(e) : Cardinality(AttemptsFor(q)) <= 1

\* C9: an exam row exists only together with one exam question row per selected
\* question, at least one.
C9_CreateIsAtomic ==
    \A r \in Reqs :
        (req[r].kind = "setup" /\ req[r].exam_id # NULL)
        => /\ Len(req[r].selected) >= 1
           /\ Cardinality(EqRows(req[r].exam_id)) = Len(req[r].selected)

\* C10: what select_mcqs_for_exam returns has at most count entries, no entry twice,
\* and only questions of the requested subjects.
C10_SelectionBound ==
    \A r \in Reqs :
        (req[r].kind = "setup" /\ pc[r] \in {"insert_exam", "insert_eq"})
        => LET sel == req[r].selected
           IN /\ Len(sel) <= req[r].count
              /\ \A i, j \in DOMAIN sel : i # j => sel[i] # sel[j]
              /\ \A i \in DOMAIN sel : sel[i] \in InSubjects(req[r].subject_ids)

\* A progress-mode selection over a history with attempts has returned exactly count
\* questions from a larger pool.
C10_Witness ==
    \E r \in Reqs :
        /\ req[r].kind = "setup" /\ pc[r] = "insert_exam"
        /\ req[r].mode = "progress"
        /\ Len(req[r].selected) = req[r].count
        /\ Cardinality(InSubjects(req[r].subject_ids)) > req[r].count
        /\ \E j \in DOMAIN attempts : attempts[j].user_id = req[r].user

\* The priority tier of question m for learner u: 1 never attempted, 2 answered
\* incorrectly at least once, 3 attempted and never incorrect.
Tier(u, m) ==
    IF \A j \in DOMAIN attempts : ~(attempts[j].user_id = u /\ attempts[j].mcq_id = m) THEN 1
    ELSE IF \E j \in DOMAIN attempts :
                attempts[j].user_id = u /\ attempts[j].mcq_id = m /\ attempts[j].is_correct = 0
    THEN 2 ELSE 3

Wrongs(u, m) ==
    Cardinality({j \in DOMAIN attempts :
        attempts[j].user_id = u /\ attempts[j].mcq_id = m /\ attempts[j].is_correct = 0})

\* m comes before n in the preference order of learner u (ties left open).
Before(u, m, n) ==
    \/ Tier(u, m) < Tier(u, n)
    \/ Tier(u, m) = 2 /\ Tier(u, n) = 2 /\ Wrongs(u, m) > Wrongs(u, n)

\* C11: what a progress-mode selection returns is in preference order (never
\* attempted, then previously incorrect with the most-missed first, then the rest),
\* and no question of the subjects that was left out comes before a returned one.
C11_TieredOrder ==
    \A r \in Reqs :
        (req[r].kind = "setup" /\ pc[r] \in {"insert_exam", "insert_eq"}
            /\ req[r].mode = "progress")
        => LET sel == req[r].selected
               u == req[r].user
           IN /\ \A i, j \in DOMAIN sel : i < j => ~Before(u, sel[j], sel[i])
              /\ \A m \in InSubjects(req[r].subject_ids) \ Range(sel) :
                    \A i \in DOMAIN sel : ~Before(u, m, sel[i])

\* A progress-mode selection has returned two previously-incorrect questions, the
\* one missed more often first.
C11_Witness ==
    \E r \in Reqs :
        /\ req[r].kind = "setup" /\ pc[r] = "insert_exam" /\ req[r].mode = "progress"
        /\ Len(req[r].selected) = 2
        /\ Tier(req[r].user, req[r].selected[1]) = 2
        /\ Tier(req[r].user, req[r].selected[2]) = 2
        /\ Wrongs(req[r].user, req[r].selected[1]) > Wrongs(req[r].user, req[r].selected[2])

\* The number of questions in the filtered subjects.
PoolSize(S) == Cardinality({m \in DOMAIN mcqs : mcqs[m].subject_id \in S})

\* The step on which select_mcqs_for_exam returns to request r.
SelectReturns(r) ==
    /\ pc[r] \in {"select_incorrect", "select_remaining", "select_random"}
    /\ pc'[r] \in {"insert_exam", "done"}

\* C12: in either mode and for any history, the selection returns exactly
\* min(count, P) identifiers, P being the number of questions in the filtered
\* subjects, and it is empty only when that pool is empty.
C12_ShortfallTolerance ==
    [][\A r \in Reqs :
        SelectReturns(r)
        => LET P == PoolSize(req[r].subject_ids)
               n == Len(req'[r].selected)
           IN /\ n = (IF req[r].count < P THEN req[r].count ELSE P)
              /\ Cardinality(Range(req'[r].selected)) = n
              /\ (n = 0 => P = 0)]_vars

\* A progress-mode selection returned the whole pool, smaller than the count asked
\* for, the last of it a backfilled question (attempted, never incorrect).
C12_Witness ==
    \E r \in Reqs :
        /\ req[r].kind = "setup" /\ pc[r] = "insert_exam" /\ req[r].mode = "progress"
        /\ Len(req[r].selected) = PoolSize(req[r].subject_ids)
        /\ Len(req[r].selected) < req[r].count
        /\ Tier(req[r].user, req[r].selected[Len(req[r].selected)]) = 3

\* A random-mode selection returned the whole pool, smaller than the count asked for.
C12_WitnessRandom ==
    \E r \in Reqs :
        /\ req[r].kind = "setup" /\ pc[r] = "insert_exam" /\ req[r].mode = "random"
        /\ Len(req[r].selected) = PoolSize(req[r].subject_ids)
        /\ Len(req[r].selected) < req[r].count

\* The step on which exam_result computes the summary of a submitted exam for r.
ResultComputed(r) ==
    /\ pc[r] = "result_summary" /\ pc'[r] = "done"
    /\ exams[req[r].exam_id].submitted_at # NULL

CountRows(e, v) ==
    Cardinality({q \in DOMAIN exam_questions :
        exam_questions[q].exam_id = e /\ exam_questions[q].is_correct = v})

CountAll(e) == Cardinality({q \in DOMAIN exam_questions : exam_questions[q].exam_id = e})

\* score is correct / total * 100 rounded to two decimals (in hundredths of a
\* percent: no other value is closer), and 0 when total is 0.
IsRoundedScore(score, correct, total) ==
    IF total = 0 THEN score = 0
    ELSE LET d == score * total - 10000 * correct
         IN 2 * (IF d < 0 THEN 0 - d ELSE d) <= total

\* C13: for every submitted exam the result reports total = the number of its rows,
\* correct = the number graded correct, incorrect = the number graded incorrect
\* (so correct + incorrect <= total), and score = correct / total * 100 rounded to
\* two decimals, 0 when total is 0.
C13_Scoring ==
    [][\A r \in Reqs :
        ResultComputed(r)
        => \E s \in req'[r].resp :
              /\ req'[r].resp = {s}
              /\ s.total = CountAll(req[r].exam_id)
              /\ s.correct = CountRows(req[r].exam_id, 1)
              /\ s.incorrect = CountRows(req[r].exam_id, 0)
              /\ s.correct + s.incorrect <= s.total
              /\ IsRoundedScore(s.score, CountRows(req[r].exam_id, 1), s.total)]_vars

\* What holds of C13: the same whenever the exam has at least one row; with no row
\* total and score are 0.
C13_ScoringWhenRows ==
    [][\A r \in Reqs :
        ResultComputed(r)
        => \E s \in req'[r].resp :
              /\ req'[r].resp = {s}
              /\ s.total = CountAll(req[r].exam_id)
              /\ IsRoundedScore(s.score, CountRows(req[r].exam_id, 1), s.total)
              /\ s.total > 0 => /\ s.correct = CountRows(req[r].exam_id, 1)
                                /\ s.incorrect = CountRows(req[r].exam_id, 0)
                                /\ s.correct + s.incorrect <= s.total]_vars

\* The result of a submitted exam of 4 questions, 3 correct and 1 incorrect: 75.
C13_Example ==
    \E r \in Reqs :
        /\ req[r].kind = "result" /\ pc[r] = "done" /\ req[r].submitted_at # NULL
        /\ req[r].resp = {[total |-> 4, correct |-> 3, incorrect |-> 1, score |-> 7500]}

\* The result of a submitted exam that has no row reports no count at all.
C13_NoRows ==
    \E r \in Reqs :
        /\ req[r].kind = "result" /\ pc[r] = "done" /\ req[r].submitted_at # NULL
        /\ req[r].resp = {[total |-> 0, correct |-> NULL, incorrect |-> NULL, score |-> 0]}

\* The attempt rows request r wrote for exam question q with the answer "1" of its
\* form, for its user and for the question of that row.
GradedAttempts(r, q) ==
    {j \in AttemptsBy(r, q) :
        /\ attempts[j].user_id = req[r].user
        /\ attempts[j].mcq_id = exam_questions[q].mcq_id
        /\ attempts[j].selected_index = IntOf("1")
        /\ attempts[j].is_correct \in {0, 1}}

\* C14: a submission forced by the deadline works on the fields its own request
\* carried, as an on-time one does: once it has completed, every answered question
\* it read is graded in its row and has one attempt row of that request with that
\* answer; only a forced submission whose request carried no answer for a question
\* it read (a GET carries none at all) has graded nothing.
C14_LateAnswersGraded ==
    \A r \in Reqs :
        (IsTake(r) /\ req[r].forced)
        => /\ pc[r] \in {"grade_update", "grade_insert", "mark_submitted"}
                => req[r].form_data = req[r].form
           /\ req[r].outcome = "submitted"
                => /\ \A q \in req[r].joined \cap req[r].answered :
                        /\ exam_questions[q].selected_index # NULL
                        /\ exam_questions[q].is_correct # NULL
                        /\ Cardinality(GradedAttempts(r, q)) = 1
                        /\ AttemptsBy(r, q) = GradedAttempts(r, q)
                   /\ (\A q \in req[r].joined : AttemptsBy(r, q) = {})
                        <=> req[r].joined \cap req[r].answered = {}
                   /\ req[r].method = "GET"
                        => /\ req[r].answered = {}
                           /\ \A j \in DOMAIN attempts : attempts[j].by # r

\* A POST that arrived after the deadline has completed its forced submission and
\* an answer it carried is graded and recorded as its attempt.
C14_Witness ==
    \E r \in Reqs :
        /\ IsTake(r) /\ req[r].forced /\ req[r].method = "POST"
        /\ req[r].outcome = "submitted"
        /\ \E q \in req[r].joined \cap req[r].answered :
            /\ exam_questions[q].is_correct # NULL
            /\ GradedAttempts(r, q) # {}

\* A GET that arrived after the deadline has forced a submission that graded nothing.
C14_WitnessView ==
    \E r \in Reqs :
        /\ IsTake(r) /\ req[r].forced /\ req[r].method = "GET"
        /\ req[r].outcome = "submitted" /\ req[r].joined # {}
        /\ \A q \in req[r].joined : exam_questions[q].is_correct = NULL

====
